---- MODULE Spec2Model ----
(***************************************************************************)
(* A model of the obsidian-maid plugin (src/color.ts, the newest variant   *)
(* of the plugin; src/main.ts is the previous one): the task map built     *)
(* from the metadata cache, the priority resolver, the weighted roll, the  *)
(* reorder of the task list and the isFileSafe flag kept by the event      *)
(* handlers.                                                               *)
(***************************************************************************)
EXTENDS Integers, Sequences, FiniteSets, TLC

(***************************************************************************)
(* Bounds of the model.                                                    *)
(***************************************************************************)
\* list items in the metadata cache
MaxItems == 3
\* largest value of a %prio= tag
MaxPrio == 3
\* defaultPriority ranges over -MaxDefault..MaxDefault
MaxDefault == 1
\* the texts of a date tag: the days 1..MaxDate, and 0 for a text the
\* regular expression matches that is no date (2024-13-01)
MaxDate == 2
\* list items in a cache of root tasks with dates
MaxSorted == 4
MaxFiles == 2
MaxPending == 2

(***************************************************************************)
(* Optional values: undefined is the empty sequence.                       *)
(***************************************************************************)
None == <<>>

Some(v) == <<v>>

Val(o) == o[1]

\* the value of a checkbox that is open: listItem.task === " "
OPEN == " "

RECURSIVE SumSeq(_)
SumSeq(s) == IF s = <<>> THEN 0 ELSE Head(s) + SumSeq(Tail(s))

Range(s) == {s[i] : i \in DOMAIN s}

(***************************************************************************)
(* The text of a list item.  A text is a body followed by its tags, in the *)
(* order they are written in the line.  A regular expression matched with  *)
(* matchAll(...).next() yields the first tag of its kind.                  *)
(***************************************************************************)
Tag(kind, value) == [kind |-> kind, value |-> value]

RECURSIVE FirstMatch(_, _)
FirstMatch(tags, kind) ==
    IF tags = <<>> THEN None
    ELSE IF Head(tags).kind = kind THEN Some(Head(tags).value)
    ELSE FirstMatch(Tail(tags), kind)

\* PRIO_REGEX = /%prio=(\d+)/g, parseInt(match[1], 10)
PRIO_REGEX(rawText) == FirstMatch(rawText.tags, "prio")

\* MAID_TASK_CLOSE_METADATA = / \(Done at (\d\d\d\d-\d\d-\d\d)\)/g
MAID_TASK_CLOSE_METADATA(rawText) == FirstMatch(rawText.tags, "done")

\* DUE_TAG_REGEX = /%due=(...)/g
DUE_TAG_REGEX(rawText) == FirstMatch(rawText.tags, "due")

(***************************************************************************)
(* Dates.  new Date(text) is a Date whose time value is the day, or NaN    *)
(* for a text that is no date (an Invalid Date); a Date is the sequence of *)
(* its time value, empty for NaN.  A comparison with NaN is false.         *)
(***************************************************************************)
InvalidDate == <<>>

\* new Date(match[1])
NewDate(text) == IF text \in 1..MaxDate THEN <<text>> ELSE InvalidDate

\* let rawDoneAt = undefined; if (rawDoneAtValue !== undefined) ...
DateOf(match) == IF match = None THEN None ELSE Some(NewDate(Val(match)))

\* first < second on two Date objects
DateLess(first, second) ==
    first # InvalidDate /\ second # InvalidDate /\ first[1] < second[1]

(***************************************************************************)
(* class Task, class TaskMap.  rawMap is a JavaScript Map: here the        *)
(* sequence of its values in insertion order, each value carrying its key  *)
(* (position).                                                             *)
(***************************************************************************)
Task(position, rawText, state, priority, doneAt, dueAt, parentTaskPosition) ==
    [position |-> position, rawText |-> rawText, state |-> state,
     priority |-> priority, doneAt |-> doneAt, dueAt |-> dueAt,
     parentTaskPosition |-> parentTaskPosition, children |-> <<>>]

Has(rawMap, position) == \E i \in DOMAIN rawMap : rawMap[i].position = position

IndexOf(rawMap, position) ==
    CHOOSE i \in DOMAIN rawMap : rawMap[i].position = position

\* TaskMap.getOptional / TaskMap.get once the assertion has passed
Get(rawMap, position) == rawMap[IndexOf(rawMap, position)]

\* TaskMap.set: Map.set keeps the place of a key that is already present
MapSet(rawMap, task) ==
    IF Has(rawMap, task.position)
    THEN [rawMap EXCEPT ![IndexOf(rawMap, task.position)] = task]
    ELSE Append(rawMap, task)

\* parentTask.children.push(taskPosition)
PushChild(rawMap, parentPosition, taskPosition) ==
    [rawMap EXCEPT ![IndexOf(rawMap, parentPosition)].children =
        Append(@, taskPosition)]

\* let parentTaskPosition = undefined; if (listItem.parent > 0) ...
parentTaskPositionOf(listItem) ==
    IF listItem.parent > 0 THEN Some(listItem.parent) ELSE None

\* the Task built from one list item
TaskOf(listItem) ==
    Task(listItem.line, listItem.text, listItem.task,
         PRIO_REGEX(listItem.text),
         DateOf(MAID_TASK_CLOSE_METADATA(listItem.text)),
         DateOf(DUE_TAG_REGEX(listItem.text)),
         parentTaskPositionOf(listItem))

\* one turn of the loop of makeTaskMap; the map.get of a parent that is not
\* in the map fails its assertion
RECURSIVE makeTaskMapLoop(_, _)
makeTaskMapLoop(items, rawMap) ==
    IF items = <<>> THEN [ok |-> TRUE, rawMap |-> rawMap]
    ELSE LET task == TaskOf(Head(items))
             parent == task.parentTaskPosition
         IN  IF parent # None /\ ~Has(rawMap, Val(parent))
             THEN [ok |-> FALSE, rawMap |-> <<>>]
             ELSE LET linked == IF parent # None
                                THEN PushChild(rawMap, Val(parent), task.position)
                                ELSE rawMap
                  IN  makeTaskMapLoop(Tail(items), MapSet(linked, task))

makeTaskMapUnguarded(safe, items) ==
    LET built == makeTaskMapLoop(items, <<>>)
    IN  IF built.ok THEN [status |-> "ok", rawMap |-> built.rawMap]
        ELSE [status |-> "assert", rawMap |-> <<>>]

\* makeTaskMap: "unsafe" and "assert" are its two thrown errors
makeTaskMap(safe, items) ==
    IF ~safe THEN [status |-> "unsafe", rawMap |-> <<>>]
    ELSE LET built == makeTaskMapLoop(items, <<>>)
         IN  IF built.ok THEN [status |-> "ok", rawMap |-> built.rawMap]
             ELSE [status |-> "assert", rawMap |-> <<>>]

(***************************************************************************)
(* TaskMap.fetchPriority                                                   *)
(***************************************************************************)
RECURSIVE fetchPriorityAlwaysInherits(_, _, _)
fetchPriorityAlwaysInherits(rawMap, cfg, position) ==
    IF ~Has(rawMap, position) THEN cfg.defaultPriority
    ELSE LET task == Get(rawMap, position)
         IN  IF task.priority = None /\ task.parentTaskPosition # None
             THEN fetchPriorityAlwaysInherits(rawMap, cfg,
                                              Val(task.parentTaskPosition))
             ELSE IF task.priority = None THEN cfg.defaultPriority
             ELSE Val(task.priority)

RECURSIVE fetchPriority(_, _, _)
fetchPriority(rawMap, cfg, position) ==
    IF ~Has(rawMap, position) THEN cfg.defaultPriority
    ELSE LET task == Get(rawMap, position)
         IN  IF /\ cfg.priorityInheritance
                /\ task.priority = None
                /\ task.parentTaskPosition # None
             THEN fetchPriority(rawMap, cfg, Val(task.parentTaskPosition))
             ELSE IF task.priority = None THEN cfg.defaultPriority
             ELSE Val(task.priority)

\* the positions fetchPriority is called with, from the first call on, cut
\* after fuel calls
RECURSIVE fetchPriorityCalls(_, _, _, _)
fetchPriorityCalls(rawMap, cfg, position, fuel) ==
    IF fuel = 0 THEN <<>>
    ELSE <<position>> \o
         (IF ~Has(rawMap, position) THEN <<>>
          ELSE LET task == Get(rawMap, position)
               IN  IF /\ cfg.priorityInheritance
                      /\ task.priority = None
                      /\ task.parentTaskPosition # None
                   THEN fetchPriorityCalls(rawMap, cfg,
                            Val(task.parentTaskPosition), fuel - 1)
                   ELSE <<>>)

\* a call of fetchPriority that makes more calls than the map has tasks, and
\* one more for a position that is no key, has come back to a task it was
\* called with: the recursion does not return and the call ends with
\* RangeError (Maximum call stack size exceeded)
fetchPriorityOverflows(rawMap, cfg, position) ==
    Len(fetchPriorityCalls(rawMap, cfg, position, Len(rawMap) + 2))
        > Len(rawMap) + 1

(***************************************************************************)
(* rollTask                                                                *)
(***************************************************************************)
isFinishedOnlyDone(task) == task.state = Some("x")

\* const isFinished = task.state !== " "
isFinished(task) == task.state # Some(OPEN)

\* the callback of tasks.rawMap.forEach: whether the task is pushed
\* to prio_pairs
Pushed(rawMap, cfg, task) ==
    /\ ~isFinished(task)
    /\ ~(fetchPriority(rawMap, cfg, task.position) < 0)

RECURSIVE prio_pairsFrom(_, _, _)
prio_pairsFrom(rawMap, cfg, i) ==
    IF i > Len(rawMap) THEN <<>>
    ELSE LET task == rawMap[i]
             rest == prio_pairsFrom(rawMap, cfg, i + 1)
         IN  IF Pushed(rawMap, cfg, task)
             THEN <<<<task.position, fetchPriority(rawMap, cfg, task.position)>>>>
                  \o rest
             ELSE rest

prio_pairs(rawMap, cfg) == prio_pairsFrom(rawMap, cfg, 1)

\* prio_pairs.map((x) => x[1]).reduce((a, b) => a + b), for a non-empty
\* array; reduce of an empty array with no initial value throws
total_prio(pairs) == SumSeq([i \in DOMAIN pairs |-> pairs[i][2]])

RECURSIVE ChooseInclusive(_, _)
ChooseInclusive(pairs, index) ==
    IF pairs = <<>> THEN None
    ELSE LET line_index == Head(pairs)[1]
             priority == Head(pairs)[2]
         IN  IF priority >= index THEN Some(line_index)
             ELSE ChooseInclusive(Tail(pairs), index - priority)

\* the loop over prio_pairs: the choice, or null
RECURSIVE Choose(_, _)
Choose(pairs, index) ==
    IF pairs = <<>> THEN None
    ELSE LET line_index == Head(pairs)[1]
             priority == Head(pairs)[2]
         IN  IF priority > index THEN Some(line_index)
             ELSE Choose(Tail(pairs), index - priority)

(***************************************************************************)
(* reorderTaskList: classification                                         *)
(***************************************************************************)
BucketNoWeird(task) ==
    IF (task.state = Some(OPEN) \/ task.state = None) /\ task.priority = None
    THEN "unprioritized"
    ELSE IF task.state = Some(OPEN) /\ task.priority # None
    THEN "prioritized"
    ELSE "done"

\* the if / else if chain of the classification loop
Bucket(task) ==
    IF (task.state = Some(OPEN) \/ task.state = None) /\ task.priority = None
    THEN "unprioritized"
    ELSE IF task.state = Some(OPEN) /\ task.priority # None
    THEN "prioritized"
    ELSE IF task.state # None
    THEN "done"
    ELSE "weird"

IsRootAlways(task) == TRUE

\* if (task.parentTaskPosition !== undefined) continue
IsRoot(task) == task.parentTaskPosition = None

RECURSIVE BucketFrom(_, _, _)
BucketFrom(rawMap, bucket, i) ==
    IF i > Len(rawMap) THEN <<>>
    ELSE LET task == rawMap[i]
             rest == BucketFrom(rawMap, bucket, i + 1)
         IN  IF IsRoot(task) /\ Bucket(task) = bucket
             THEN <<task.position>> \o rest
             ELSE rest

\* the four arrays after the classification loop
Classified(rawMap, bucket) == BucketFrom(rawMap, bucket, 1)

(***************************************************************************)
(* reorderTaskList: comparators and sorts                                  *)
(***************************************************************************)
positionCompareDescending(firstTaskPosition, secondTaskPosition) ==
    IF firstTaskPosition < secondTaskPosition THEN 1
    ELSE IF firstTaskPosition > secondTaskPosition THEN -1
    ELSE 0

positionCompare(firstTaskPosition, secondTaskPosition) ==
    IF firstTaskPosition < secondTaskPosition THEN -1
    ELSE IF firstTaskPosition > secondTaskPosition THEN 1
    ELSE 0

prioritizedTaskSortAscending(rawMap, this, other) ==
    LET thisTask == Get(rawMap, this[1])
        otherTask == Get(rawMap, other[1])
        thisPriority == this[2]
        otherPriority == other[2]
        isSamePriority == thisPriority = otherPriority
        isOnlyOneDueAt ==
            \/ thisTask.dueAt = None /\ otherTask.dueAt # None
            \/ thisTask.dueAt # None /\ otherTask.dueAt = None
    IN  IF isSamePriority /\ isOnlyOneDueAt /\ thisTask.dueAt # None THEN -1
        ELSE IF isSamePriority /\ isOnlyOneDueAt /\ otherTask.dueAt # None THEN 1
        ELSE IF /\ isSamePriority
                /\ thisTask.dueAt # None
                /\ otherTask.dueAt # None
                /\ DateLess(Val(thisTask.dueAt), Val(otherTask.dueAt)) THEN -1
        ELSE IF /\ isSamePriority
                /\ thisTask.dueAt # None
                /\ otherTask.dueAt # None
                /\ DateLess(Val(otherTask.dueAt), Val(thisTask.dueAt)) THEN 1
        ELSE IF thisPriority < otherPriority THEN -1
        ELSE IF thisPriority > otherPriority THEN 1
        ELSE positionCompare(this[1], other[1])

\* elements are [position, priority] pairs
prioritizedTaskSort(rawMap, this, other) ==
    LET thisTask == Get(rawMap, this[1])
        otherTask == Get(rawMap, other[1])
        thisPriority == this[2]
        otherPriority == other[2]
        isSamePriority == thisPriority = otherPriority
        isOnlyOneDueAt ==
            \/ thisTask.dueAt = None /\ otherTask.dueAt # None
            \/ thisTask.dueAt # None /\ otherTask.dueAt = None
    IN  IF isSamePriority /\ isOnlyOneDueAt /\ thisTask.dueAt # None THEN -1
        ELSE IF isSamePriority /\ isOnlyOneDueAt /\ otherTask.dueAt # None THEN 1
        ELSE IF /\ isSamePriority
                /\ thisTask.dueAt # None
                /\ otherTask.dueAt # None
                /\ DateLess(Val(thisTask.dueAt), Val(otherTask.dueAt)) THEN -1
        ELSE IF /\ isSamePriority
                /\ thisTask.dueAt # None
                /\ otherTask.dueAt # None
                /\ DateLess(Val(otherTask.dueAt), Val(thisTask.dueAt)) THEN 1
        ELSE IF thisPriority < otherPriority THEN 1
        ELSE IF thisPriority > otherPriority THEN -1
        ELSE positionCompare(this[1], other[1])

\* the comparator of doneTasks.sort
doneTaskSort(rawMap, firstTaskPosition, secondTaskPosition) ==
    LET firstTask == Get(rawMap, firstTaskPosition)
        secondTask == Get(rawMap, secondTaskPosition)
    IN  IF /\ firstTask.doneAt # None
           /\ secondTask.doneAt # None
           /\ DateLess(Val(firstTask.doneAt), Val(secondTask.doneAt)) THEN 1
        ELSE IF /\ firstTask.doneAt # None
                /\ secondTask.doneAt # None
                /\ DateLess(Val(secondTask.doneAt), Val(firstTask.doneAt)) THEN -1
        ELSE positionCompare(firstTaskPosition, secondTaskPosition)

\* the comparator an Array.prototype.sort call is given
Compare(which, rawMap, a, b) ==
    CASE which = "position" -> positionCompare(a, b)
      [] which = "number" -> a - b
      [] which = "prioritized" -> prioritizedTaskSort(rawMap, a, b)
      [] which = "done" -> doneTaskSort(rawMap, a, b)

\* Array.prototype.sort as V8 runs it on an array shorter than 64 elements:
\* the run the array starts with is found (and reversed when it strictly
\* descends), then every later element is put in its place by a binary
\* insertion.  For a comparator that is an order this is the stable sort;
\* for one that is not, the result is the one of this algorithm.
\* whether the run ends before the element at idx, given how that element
\* compares with the one before it
RunEnds(isDescending, order) ==
    (isDescending /\ order >= 0) \/ (~isDescending /\ order < 0)

RECURSIVE RunEnd(_, _, _, _, _)
RunEnd(which, rawMap, array, isDescending, idx) ==
    IF idx > Len(array) THEN Len(array)
    ELSE IF RunEnds(isDescending,
                    Compare(which, rawMap, array[idx], array[idx - 1]))
    THEN idx - 1
    ELSE RunEnd(which, rawMap, array, isDescending, idx + 1)

Reverse(array) == [i \in DOMAIN array |-> array[Len(array) + 1 - i]]

\* the place of pivot among array[left], ..., array[right - 1]
RECURSIVE BinarySearch(_, _, _, _, _, _)
BinarySearch(which, rawMap, array, pivot, left, right) ==
    IF left >= right THEN left
    ELSE IF Compare(which, rawMap, pivot,
                    array[left + ((right - left) \div 2)]) < 0
    THEN BinarySearch(which, rawMap, array, pivot,
                      left, left + ((right - left) \div 2))
    ELSE BinarySearch(which, rawMap, array, pivot,
                      left + ((right - left) \div 2) + 1, right)

\* the array with the element at start moved to the place left
Placed(array, start, left) ==
    SubSeq(array, 1, left - 1) \o <<array[start]>>
    \o SubSeq(array, left, start - 1)
    \o SubSeq(array, start + 1, Len(array))

RECURSIVE BinaryInsertionSort(_, _, _, _)
BinaryInsertionSort(which, rawMap, array, start) ==
    IF start > Len(array) THEN array
    ELSE BinaryInsertionSort(which, rawMap,
             Placed(array, start,
                    BinarySearch(which, rawMap, array, array[start], 1, start)),
             start + 1)

\* the run of the given length is reversed when it descends
MadeRun(array, isDescending, run) ==
    IF isDescending
    THEN Reverse(SubSeq(array, 1, run)) \o SubSeq(array, run + 1, Len(array))
    ELSE array

SortFromRun(which, rawMap, array, isDescending, run) ==
    BinaryInsertionSort(which, rawMap, MadeRun(array, isDescending, run), run + 1)

CountAndMakeRun(which, rawMap, array, isDescending) ==
    SortFromRun(which, rawMap, array, isDescending,
                RunEnd(which, rawMap, array, isDescending, 3))

Sort(which, rawMap, array) ==
    IF Len(array) < 2 THEN array
    ELSE CountAndMakeRun(which, rawMap, array,
                         Compare(which, rawMap, array[2], array[1]) < 0)

\* median(values), doubled so that the mean of the two middle values stays
\* an integer; values is not empty
medianOfSorted2(sorted) ==
    IF Len(sorted) % 2 = 1 THEN 2 * sorted[(Len(sorted) \div 2) + 1]
    ELSE sorted[Len(sorted) \div 2] + sorted[(Len(sorted) \div 2) + 1]

median2(values) == medianOfSorted2(Sort("number", <<>>, values))

\* const priorities = prioritizedUndoneTasks.map(...)
priorities(rawMap, cfg, prioritizedUndoneTasks) ==
    [i \in DOMAIN prioritizedUndoneTasks |->
        <<prioritizedUndoneTasks[i],
          fetchPriority(rawMap, cfg, prioritizedUndoneTasks[i])>>]

lowPriorityTasks(pairs, priorityMedian2) ==
    LET low(pair) == 2 * pair[2] <= priorityMedian2
    IN  SelectSeq(pairs, low)

highPriorityTasksFromMedian(pairs, priorityMedian2) ==
    LET high(pair) == 2 * pair[2] >= priorityMedian2
    IN  SelectSeq(pairs, high)

highPriorityTasks(pairs, priorityMedian2) ==
    LET high(pair) == 2 * pair[2] > priorityMedian2
    IN  SelectSeq(pairs, high)

\* lowPriorityTasks.sort(prioritizedTaskSort) and
\* highPriorityTasks.sort(prioritizedTaskSort)
sortedLowPriorityTasks(rawMap, pairs) ==
    LET m == median2([i \in DOMAIN pairs |-> pairs[i][2]])
    IN  Sort("prioritized", rawMap, lowPriorityTasks(pairs, m))

sortedHighPriorityTasks(rawMap, pairs) ==
    LET m == median2([i \in DOMAIN pairs |-> pairs[i][2]])
    IN  Sort("prioritized", rawMap, highPriorityTasks(pairs, m))

\* highPriorityTasks.concat(lowPriorityTasks).map(([position, _]) => position)
finalPrioritizedTasks(rawMap, pairs) ==
    LET both == sortedHighPriorityTasks(rawMap, pairs)
                \o sortedLowPriorityTasks(rawMap, pairs)
    IN  [i \in DOMAIN both |-> both[i][1]]

(***************************************************************************)
(* reorderTaskList: output                                                 *)
(***************************************************************************)
\* stringifyTaskPositions: one entry per task written, in the order of the
\* touchedTasks.push calls; ident is the number of tabs before rawText
RECURSIVE stringifyTaskPositions(_, _, _)
stringifyTaskPositions(rawMap, list, ident) ==
    IF list = <<>> THEN <<>>
    ELSE LET task == Get(rawMap, Head(list))
         IN  <<[position |-> task.position, ident |-> ident,
                rawText |-> task.rawText]>>
             \o stringifyTaskPositions(rawMap, task.children, ident + 1)
             \o stringifyTaskPositions(rawMap, Tail(list), ident)

\* the lines of the output string
Header(title) == [kind |-> "header", title |-> title]

Blank == [kind |-> "blank"]

TaskLine(ident, rawText) == [kind |-> "task", ident |-> ident, rawText |-> rawText]

Lines(entries) ==
    [i \in DOMAIN entries |-> TaskLine(entries[i].ident, entries[i].rawText)]

WeirdSectionAlways(entries) ==
    <<Header("# weird (bugs in task selection)")>> \o Lines(entries)

\* the weird section is written only when weirdTasks is not empty
WeirdSection(entries) ==
    IF entries # <<>>
    THEN <<Header("# weird (bugs in task selection)")>> \o Lines(entries)
    ELSE <<>>

OutputDoneFirst(weird, unprioritized, prioritized, done) ==
    WeirdSection(weird)
    \o <<Header("# unprioritized")>> \o Lines(unprioritized)
    \o <<Blank, Header("# done")>> \o Lines(done)
    \o <<Blank, Header("# prioritized")>> \o Lines(prioritized)

\* let output = ""; output += ...
Output(weird, unprioritized, prioritized, done) ==
    WeirdSection(weird)
    \o <<Header("# unprioritized")>> \o Lines(unprioritized)
    \o <<Blank, Header("# prioritized")>> \o Lines(prioritized)
    \o <<Blank, Header("# done")>> \o Lines(done)

reorderErrorNever(rawMap, touchedTasks) == FALSE

\* the loop over finalTaskIterator
reorderError(rawMap, touchedTasks) ==
    \E i \in DOMAIN rawMap : rawMap[i].position \notin Range(touchedTasks)

(***************************************************************************)
(* What a command did: the values of its locals when it returned or threw. *)
(***************************************************************************)
NoRun ==
    [cmd |-> "none", status |-> "none", rawMap |-> <<>>,
     weirdTasks |-> <<>>, unprioritizedTasks |-> <<>>,
     prioritizedUndoneTasks |-> <<>>, finalPrioritizedTasks |-> <<>>,
     doneTasks |-> <<>>, output |-> <<>>, touchedTasks |-> <<>>,
     prio_pairs |-> <<>>, index |-> None, choice |-> None]

\* the locals of reorderTaskList when it ends with a status
reorderRun(status, rawMap, weird, unprioritized, prioritizedUndone, final, done, output, touched) ==
    [NoRun EXCEPT !.cmd = "reorderTaskList",
                  !.status = status,
                  !.rawMap = rawMap,
                  !.weirdTasks = weird,
                  !.unprioritizedTasks = unprioritized,
                  !.prioritizedUndoneTasks = prioritizedUndone,
                  !.finalPrioritizedTasks = final,
                  !.doneTasks = done,
                  !.output = output,
                  !.touchedTasks = touched]

\* the loop over finalTaskIterator, then editor.replaceRange
reorderWritten(rawMap, weird, unprioritized, prioritizedUndone, final, done, output, touched) ==
    reorderRun(IF reorderError(rawMap, touched) THEN "reorderError"
               ELSE "written",
               rawMap, weird, unprioritized, prioritizedUndone, final, done,
               output, touched)

\* touchedTasks after the four calls of stringifyTaskPositions
touchedTasks(entries) == [i \in DOMAIN entries |-> entries[i].position]

\* let output = ""; output += ...
reorderStringified(rawMap, weird, unprioritized, prioritizedUndone, final, done, w, u, p, d) ==
    reorderWritten(rawMap, weird, unprioritized, prioritizedUndone, final,
                   done, Output(w, u, p, d), touchedTasks(w \o u \o p \o d))

\* the four calls of stringifyTaskPositions
reorderSorted(rawMap, weird, unprioritized, prioritizedUndone, final, done) ==
    reorderStringified(rawMap, weird, unprioritized, prioritizedUndone, final,
                       done,
                       stringifyTaskPositions(rawMap, weird, 0),
                       stringifyTaskPositions(rawMap, unprioritized, 0),
                       stringifyTaskPositions(rawMap, final, 0),
                       stringifyTaskPositions(rawMap, done, 0))

\* the median, which throws Error("No inputs") on an empty bucket, the
\* sort of the prioritized bucket and the sort of the done bucket
reorderClassified(cfg, rawMap, weird, unprioritized, prioritizedUndone, done) ==
    IF prioritizedUndone = <<>>
    THEN reorderRun("noInputs", rawMap, weird, unprioritized,
                    prioritizedUndone, <<>>, done, <<>>, <<>>)
    ELSE reorderSorted(rawMap, weird, unprioritized, prioritizedUndone,
                       finalPrioritizedTasks(rawMap,
                           priorities(rawMap, cfg, prioritizedUndone)),
                       Sort("done", rawMap, done))

\* the classification loop and the sort of the unprioritized bucket
reorderBuilt(cfg, tasks) ==
    IF tasks.status # "ok"
    THEN reorderRun(tasks.status, <<>>, <<>>, <<>>, <<>>, <<>>, <<>>, <<>>, <<>>)
    ELSE reorderClassified(cfg, tasks.rawMap,
             Classified(tasks.rawMap, "weird"),
             Sort("position", tasks.rawMap,
                  Classified(tasks.rawMap, "unprioritized")),
             Classified(tasks.rawMap, "prioritized"),
             Classified(tasks.rawMap, "done"))

\* reorderTaskList from the call of makeTaskMap up to the write of the
\* document
reorderEnabled(cfg, safe, items) == reorderBuilt(cfg, makeTaskMap(safe, items))

reorderTaskListUnguarded(cfg, safe, items) == reorderEnabled(cfg, safe, items)

\* reorderTaskList: if (!this.settings.reorderFeatureEnabled) return
reorderTaskList(cfg, safe, items) ==
    IF ~cfg.reorderFeatureEnabled
    THEN [NoRun EXCEPT !.cmd = "reorderTaskList", !.status = "disabled"]
    ELSE reorderEnabled(cfg, safe, items)

\* rollTask; index is the value of Math.floor(Math.random() * total_prio)
rollTask(cfg, safe, items, index) ==
    LET start == [NoRun EXCEPT !.cmd = "rollTask"]
        tasks == makeTaskMap(safe, items)
    IN
    IF tasks.status # "ok" THEN [start EXCEPT !.status = tasks.status]
    ELSE
    LET rawMap == tasks.rawMap
        pairs == prio_pairs(rawMap, cfg)
        built == [start EXCEPT !.rawMap = rawMap, !.prio_pairs = pairs]
    IN
    \* tasks.fetchPriority(taskPosition) does not return
    IF \E i \in DOMAIN rawMap :
          /\ ~isFinished(rawMap[i])
          /\ fetchPriorityOverflows(rawMap, cfg, rawMap[i].position)
    THEN [start EXCEPT !.rawMap = rawMap, !.status = "stackOverflow"]
    \* reduce of an empty array with no initial value: TypeError
    ELSE IF pairs = <<>> THEN [built EXCEPT !.status = "reduceEmpty"]
    ELSE IF total_prio(pairs) < 1 THEN [built EXCEPT !.status = "noSelection"]
    ELSE LET choice == Choose(pairs, index)
         IN  [built EXCEPT !.index = Some(index), !.choice = choice,
                           !.status = IF choice # None THEN "selected"
                                      ELSE "noChoice"]

(***************************************************************************)
(* The roll-task command of main.ts, which reads the list items directly.  *)
(***************************************************************************)
RECURSIVE getPriorityAlwaysInherits(_, _, _)
getPriorityAlwaysInherits(lineNumber, items, cfg) ==
    LET at(x) == x.line = lineNumber
        found == SelectSeq(items, at)
    IN  IF found = <<>> THEN None
        ELSE LET listData == Head(found)
                 match == PRIO_REGEX(listData.text)
             IN  IF match # None THEN match
                 ELSE IF listData.parent > 0
                 THEN getPriorityAlwaysInherits(listData.parent, items, cfg)
                 ELSE Some(cfg.defaultPriority)

\* getPriority: the priority of the list item found at a line, or None when
\* assert(listData !== undefined) fails
RECURSIVE getPriority(_, _, _)
getPriority(lineNumber, items, cfg) ==
    LET at(x) == x.line = lineNumber
        found == SelectSeq(items, at)
    IN  IF found = <<>> THEN None
        ELSE LET listData == Head(found)
                 match == PRIO_REGEX(listData.text)
             IN  IF match # None THEN match
                 ELSE IF ~cfg.priorityInheritance THEN Some(cfg.defaultPriority)
                 ELSE IF listData.parent > 0
                 THEN getPriority(listData.parent, items, cfg)
                 ELSE Some(cfg.defaultPriority)

\* the elements of a set of line numbers in the order Object.entries lists
\* integer keys: ascending
RECURSIVE ObjectEntries(_)
ObjectEntries(keys) ==
    IF keys = {} THEN <<>>
    ELSE LET least == CHOOSE x \in keys : \A y \in keys : x <= y
         IN  <<least>> \o ObjectEntries(keys \ {least})

\* prio_pairs of the roll-task callback of main.ts: the priorities object
\* filled for every list item, then the filter on the weight and on the
\* checkbox of the line
legacy_prio_pairs(items, cfg) ==
    LET lines == ObjectEntries({items[i].line : i \in DOMAIN items})
        pairs == [k \in DOMAIN lines |->
                     <<lines[k], Val(getPriority(lines[k], items, cfg))>>]
        checkbox(lineNumber) ==
            LET at(x) == x.line = lineNumber
            IN  Head(SelectSeq(items, at)).task
        kept(x) == /\ ~(x[2] < 0)
                   /\ checkbox(x[1]) # None
                   /\ checkbox(x[1]) = Some(OPEN)
    IN  SelectSeq(pairs, kept)

\* the values Math.floor(Math.random() * total_prio) can take
Indexes(cfg, safe, items) ==
    LET tasks == makeTaskMap(safe, items)
        returns == \A i \in DOMAIN tasks.rawMap :
                      isFinished(tasks.rawMap[i]) \/
                      ~fetchPriorityOverflows(tasks.rawMap, cfg,
                                              tasks.rawMap[i].position)
        pairs == IF tasks.status = "ok" /\ returns
                 THEN prio_pairs(tasks.rawMap, cfg) ELSE <<>>
    IN  IF pairs # <<>> /\ total_prio(pairs) >= 1
        THEN 0 .. (total_prio(pairs) - 1)
        ELSE {0}

(***************************************************************************)
(* The list items of the metadata cache.                                   *)
(***************************************************************************)
OptTag(kind, o) == IF o = None THEN <<>> ELSE <<Tag(kind, Val(o))>>

\* a list item at a line of the document; its text carries the tags
ListItem(line, parent, task, prio, due, done) ==
    [line |-> line, parent |-> parent, task |-> task,
     text |-> [body |-> line,
               tags |-> OptTag("prio", prio) \o OptTag("due", due)
                        \o OptTag("done", done)]]

ItemOf(line, shape) ==
    ListItem(line, shape.parent, shape.task, shape.prio, shape.due, shape.done)

CheckboxStates == {Some(OPEN), Some("x"), None}

PrioTags == {None} \cup {Some(p) : p \in 0..MaxPrio}

\* the line of the i-th item of a list that starts at line base
LineOf(base, i) == base + i - 1

\* the parent values of the i-th item of a well-formed list: negative for a
\* root item, or the line of an earlier item
EarlierLines(base, i) == {-1} \cup {LineOf(base, j) : j \in 1..(i - 1)}

\* the texts of a date tag, or no tag
DateTags == {None} \cup {Some(d) : d \in 0..MaxDate}

\* the items the i-th place of a cache is drawn from:
\*   "links": every parent value, present or not, with one checkbox state;
\*   "tasks": a parent on an earlier line, every checkbox state and
\*            priority tag;
\*   "dates": root items: an open task with no priority, an open task with
\*            a priority and any due tag, a done task with any done tag
Shapes(family, base, i) ==
    IF family = "links"
    THEN [parent : -1..MaxItems, task : {Some(OPEN)}, prio : {None, Some(1)},
          due : {None}, done : {None}]
    ELSE IF family = "tasks"
    THEN [parent : EarlierLines(base, i), task : CheckboxStates,
          prio : PrioTags, due : {None}, done : {None}]
    ELSE [parent : {-1}, task : {Some(OPEN)}, prio : {None},
          due : {None}, done : {None}]
         \cup [parent : {-1}, task : {Some(OPEN)},
               prio : {Some(1), Some(MaxPrio)}, due : DateTags, done : {None}]
         \cup [parent : {-1}, task : {Some("x")}, prio : {None},
               due : {None}, done : DateTags]

\* the caches of exactly n items on consecutive lines from line base
RECURSIVE CachesOfLen(_, _, _)
CachesOfLen(family, base, n) ==
    IF n = 0 THEN {<<>>}
    ELSE { Append(items, ItemOf(LineOf(base, n), shape)) :
             <<items, shape>> \in CachesOfLen(family, base, n - 1)
                                  \X Shapes(family, base, n) }

\* the caches of at most MaxItems items
Caches(family, bases) ==
    UNION { CachesOfLen(family, base, n) :
              <<base, n>> \in bases \X (0..MaxItems) }

\* the caches of at most max root tasks with dates, from line 1
SortedCaches(max) == UNION { CachesOfLen("dates", 1, n) : n \in 0..max }

\* the items that may follow the items of a list in which a list is
\* written inside an item on the line of that item ("- - [ ] a"): an item
\* on the next line, root or child of an earlier item, or an item on the
\* line of the last item, whose parent is that line
NestedShapes(items) ==
    LET last == IF items = <<>> THEN 0 ELSE items[Len(items)].line
        lines == {items[j].line : j \in DOMAIN items}
    IN  { ListItem(last + 1, parent, Some(OPEN), prio, None, None) :
            parent \in {-1} \cup lines, prio \in {None, Some(1)} }
        \cup (IF items = <<>> THEN {}
              ELSE { ListItem(last, last, Some(OPEN), prio, None, None) :
                       prio \in {None, Some(1)} })

RECURSIVE NestedOfLen(_)
NestedOfLen(n) ==
    IF n = 0 THEN {<<>>}
    ELSE UNION { { Append(items, item) : item \in NestedShapes(items) } :
                   items \in NestedOfLen(n - 1) }

NestedCaches(max) == UNION { NestedOfLen(n) : n \in 0..max }

(***************************************************************************)
(* State.                                                                  *)
(***************************************************************************)
VARIABLES
    listItems,   \* app.metadataCache.getFileCache(view.file).listItems
    settings,    \* MaidPlugin.settings
    isFileSafe,  \* MaidPlugin.isFileSafe
    document,    \* the lines of the editor
    cursor,      \* the line of the editor's cursor
    run,         \* the last command run under these settings, with the
                 \* values of its locals when it ended
    files        \* the files of the vault: the one the editor shows, and
                 \* for each file the number of its edits that the metadata
                 \* cache has not reported with a "changed" event yet

vars == <<listItems, settings, isFileSafe, document, cursor, run, files>>

\* the specifications that do not follow the edits keep no file
NoFiles == [open |-> 0, pending |-> <<>>]

AllFiles == [open |-> 1, pending |-> [f \in 1..MaxFiles |-> 0]]

Tracked == files.pending # <<>>

\* the files an event can be about
Files == IF Tracked THEN DOMAIN files.pending ELSE {files.open}

Pending(f) == IF Tracked THEN files.pending[f] ELSE 0

DEFAULT_SETTINGS ==
    [defaultPriority |-> 0, priorityInheritance |-> TRUE,
     reorderFeatureEnabled |-> FALSE]

\* the document the list items were read from
Source(items) ==
    [i \in DOMAIN items |->
        [kind |-> "source", checkbox |-> items[i].task,
         rawText |-> items[i].text]]

InitFiles(caches, vault) ==
    /\ listItems \in caches
    /\ settings = DEFAULT_SETTINGS
    /\ isFileSafe = FALSE
    /\ document = Source(listItems)
    /\ cursor = 0
    /\ run = NoRun
    /\ files = vault

InitWith(caches) == InitFiles(caches, NoFiles)

(***************************************************************************)
(* Event handlers registered by onload.                                    *)
(***************************************************************************)
\* workspace.on("file-open") with a file; with no file (null) the handler
\* does nothing
FileOpen ==
    \E file \in Files :
        /\ isFileSafe' = TRUE
        /\ files' = [files EXCEPT !.open = file]
        /\ UNCHANGED <<listItems, settings, document, cursor, run>>

\* workspace.on("editor-change"): an edit of the open file
EditorChange ==
    /\ Pending(files.open) < MaxPending
    /\ isFileSafe' = IF isFileSafe THEN FALSE ELSE isFileSafe
    /\ files' = IF Tracked
                 THEN [files EXCEPT !.pending[files.open] = @ + 1]
                 ELSE files
    /\ UNCHANGED <<listItems, settings, document, cursor, run>>

\* metadataCache.on("changed") for a file: the cache reports one or more of
\* the edits of the file it had not reported yet, or, for a file the editor
\* does not show, a change made outside the editor
MetadataChanged ==
    \E file \in Files :
        \E reported \in 0..Pending(file) :
            /\ Tracked => (reported > 0 \/ file # files.open)
            /\ isFileSafe' = IF ~isFileSafe THEN TRUE ELSE isFileSafe
            /\ files' = IF Tracked
                         THEN [files EXCEPT !.pending[file] = @ - reported]
                         ELSE files
            /\ UNCHANGED <<listItems, settings, document, cursor, run>>

(***************************************************************************)
(* The settings tab.  run keeps the locals of a command run under the      *)
(* settings in force: a change of the settings forgets them.               *)
(***************************************************************************)
SetDefaultPriority ==
    \E value \in (-MaxDefault)..MaxDefault :
        /\ settings' = [settings EXCEPT !.defaultPriority = value]
        /\ run' = NoRun
        /\ UNCHANGED <<listItems, isFileSafe, document, cursor, files>>

SetPriorityInheritance ==
    \E value \in BOOLEAN :
        /\ settings' = [settings EXCEPT !.priorityInheritance = value]
        /\ run' = NoRun
        /\ UNCHANGED <<listItems, isFileSafe, document, cursor, files>>

SetReorderFeatureEnabled ==
    \E value \in BOOLEAN :
        /\ settings' = [settings EXCEPT !.reorderFeatureEnabled = value]
        /\ run' = NoRun
        /\ UNCHANGED <<listItems, isFileSafe, document, cursor, files>>

(***************************************************************************)
(* Commands.  The cache describes the document until a reorder rewrites    *)
(* it; the model follows the document up to that point.                    *)
(***************************************************************************)
CacheCurrent == document = Source(listItems)

ReorderTaskList ==
    /\ CacheCurrent
    /\ run' = reorderTaskList(settings, isFileSafe, listItems)
    /\ document' = IF run'.status = "written" THEN run'.output ELSE document
    /\ UNCHANGED <<listItems, settings, isFileSafe, cursor, files>>

RollTask ==
    /\ CacheCurrent
    /\ \E index \in Indexes(settings, isFileSafe, listItems) :
          run' = rollTask(settings, isFileSafe, listItems, index)
    /\ cursor' = IF run'.choice # None THEN Val(run'.choice) ELSE cursor
    /\ UNCHANGED <<listItems, settings, isFileSafe, document, files>>

(***************************************************************************)
(* The toggle commands, on the line of the cursor.  The suffix a command   *)
(* writes is a tag at the end of the line.                                 *)
(***************************************************************************)
\* MAID_TASK_LEFT_METADATA = / \(Left at (\d\d\d\d-\d\d-\d\d)\)/g
MAID_TASK_LEFT_METADATA(rawText) == FirstMatch(rawText.tags, "left")

\* MARKDOWN_LIST_ELEMENT_REGEX: the character in the checkbox of a line
MARKDOWN_LIST_ELEMENT_REGEX(line) == line.checkbox

\* editor.replaceRange(dateSuffixer(wantedDate), ...) at the end of the line
addDateToEditor(line, kind, wantedDate) ==
    [line EXCEPT !.rawText.tags = Append(@, Tag(kind, wantedDate))]

RECURSIVE WithoutFirst(_, _)
WithoutFirst(tags, kind) ==
    IF tags = <<>> THEN <<>>
    ELSE IF Head(tags).kind = kind THEN Tail(tags)
    ELSE <<Head(tags)>> \o WithoutFirst(Tail(tags), kind)

\* editor.replaceRange("", ...) over the first match
removeDateToEditor(line, kind) ==
    [line EXCEPT !.rawText.tags = WithoutFirst(@, kind)]

\* the editorCallback of a toggle command on a line with a checkbox: mark
\* is "x" and kind "done" for completeness, "N" and "left" for leftness
toggle(line, mark, kind, now) ==
    LET firstMatch == MARKDOWN_LIST_ELEMENT_REGEX(line)
        replaceWith == IF Val(firstMatch) = OPEN THEN mark ELSE OPEN
        replaced == [line EXCEPT !.checkbox = Some(replaceWith)]
        dateMatch == FirstMatch(line.rawText.tags, kind)
    IN  IF replaceWith = mark /\ dateMatch = None
        THEN addDateToEditor(replaced, kind, now)
        ELSE IF replaceWith = OPEN /\ dateMatch # None
        THEN removeDateToEditor(replaced, kind)
        ELSE replaced

\* the lines of the document the cursor is on that have a checkbox
CursorLines ==
    {i \in DOMAIN document :
        /\ i \in DOMAIN listItems
        /\ listItems[i].line = cursor
        /\ document[i].kind = "source"
        /\ MARKDOWN_LIST_ELEMENT_REGEX(document[i]) # None}

ToggleTaskCompleteness ==
    \E i \in CursorLines, now \in 1..MaxDate :
        /\ document' = [document EXCEPT ![i] = toggle(@, "x", "done", now)]
        /\ UNCHANGED <<listItems, settings, isFileSafe, cursor, run, files>>

ToggleTaskLeftness ==
    \E i \in CursorLines, now \in 1..MaxDate :
        /\ document' = [document EXCEPT ![i] = toggle(@, "N", "left", now)]
        /\ UNCHANGED <<listItems, settings, isFileSafe, cursor, run, files>>

(***************************************************************************)
(* Specifications.                                                         *)
(***************************************************************************)
\* any list of items, linked by any parent values
Init == InitWith(Caches("links", {0, 1}))

Next ==
    \/ FileOpen
    \/ EditorChange
    \/ MetadataChanged
    \/ SetReorderFeatureEnabled
    \/ ReorderTaskList
    \/ RollTask

Spec == Init /\ [][Next]_vars

\* well-formed lists of tasks, rolled
InitRoll == InitWith(Caches("tasks", {1}))

NextRoll ==
    \/ FileOpen
    \/ EditorChange
    \/ MetadataChanged
    \/ SetDefaultPriority
    \/ SetPriorityInheritance
    \/ RollTask

SpecRoll == InitRoll /\ [][NextRoll]_vars

\* well-formed lists of tasks, reordered
InitReorder == InitWith(Caches("tasks", {0, 1}))

NextReorder ==
    \/ FileOpen
    \/ EditorChange
    \/ MetadataChanged
    \/ SetReorderFeatureEnabled
    \/ ReorderTaskList

SpecReorder == InitReorder /\ [][NextReorder]_vars

\* root tasks with priorities, due dates and done dates, reordered
InitSort == InitWith(SortedCaches(MaxSorted))

SpecSort == InitSort /\ [][NextReorder]_vars

\* lists with an item written inside another on the same line, reordered
InitNested == InitWith(NestedCaches(MaxItems))

NextNested ==
    \/ FileOpen
    \/ EditorChange
    \/ MetadataChanged
    \/ SetReorderFeatureEnabled
    \/ ReorderTaskList
    \/ RollTask

SpecNested == InitNested /\ [][NextNested]_vars

\* lists of open tasks, a roll to move the cursor, and the toggles
InitToggle == InitWith(Caches("links", {0}))

NextToggle ==
    \/ FileOpen
    \/ EditorChange
    \/ MetadataChanged
    \/ RollTask
    \/ ToggleTaskCompleteness
    \/ ToggleTaskLeftness

SpecToggle == InitToggle /\ [][NextToggle]_vars

\* the files of the vault with their edits, and a roll
InitEdits == InitFiles(Caches("links", {1}), AllFiles)

NextEdits ==
    \/ FileOpen
    \/ EditorChange
    \/ MetadataChanged
    \/ RollTask

SpecEdits == InitEdits /\ [][NextEdits]_vars

(***************************************************************************)
(* Notions the properties are stated with.                                 *)
(***************************************************************************)
\* a command got its task map built
Built == run.cmd # "none" /\ run.status \notin {"disabled", "unsafe", "assert"}

\* the indexes of the task lines of a document, in order
TaskLineIndexes(doc) ==
    LET isTask(k) == doc[k].kind = "task"
    IN  SelectSeq([k \in DOMAIN doc |-> k], isTask)

\* the title of the header a line of a document stands under
RECURSIVE SectionOf(_, _)
SectionOf(doc, k) ==
    IF k = 0 THEN "none"
    ELSE IF doc[k].kind = "header" THEN doc[k].title
    ELSE SectionOf(doc, k - 1)

\* the section in which reorderTaskList wrote the task at a position
SectionOfTask(position) ==
    LET j == CHOOSE j \in DOMAIN run.touchedTasks : run.touchedTasks[j] = position
    IN  SectionOf(document, TaskLineIndexes(document)[j])

\* how many times a value occurs in a sequence
Count(s, v) == Cardinality({i \in DOMAIN s : s[i] = v})

\* the tasks of a map from a task up to its root: the task, its parent, ...
RECURSIVE Chain(_, _, _)
Chain(rawMap, position, fuel) ==
    IF fuel = 0 \/ ~Has(rawMap, position) THEN <<>>
    ELSE LET task == Get(rawMap, position)
         IN  <<task>> \o (IF task.parentTaskPosition = None THEN <<>>
                          ELSE Chain(rawMap, Val(task.parentTaskPosition), fuel - 1))

\* the reference rule of the resolved priority
ReferencePriority(rawMap, cfg, position) ==
    IF ~Has(rawMap, position) THEN cfg.defaultPriority
    ELSE LET chain == Chain(rawMap, position, Len(rawMap))
             scope == IF cfg.priorityInheritance THEN chain ELSE <<Head(chain)>>
             explicit(task) == task.priority # None
             withPriority == SelectSeq(scope, explicit)
         IN  IF withPriority = <<>> THEN cfg.defaultPriority
             ELSE Val(Head(withPriority).priority)

(***************************************************************************)
(* C1                                                                      *)
(***************************************************************************)
\* C1: when reorderTaskList has written the document, every list item is a
\* task of the map, every position of the map was written exactly once, the
\* document holds as many task lines as the map holds tasks, and each task
\* line carries the unchanged rawText of the task written there.
C1_EveryTaskWrittenOnce ==
    run.status = "written" =>
        LET written == TaskLineIndexes(document)
        IN  /\ Len(run.rawMap) = Len(listItems)
            /\ \A i \in DOMAIN listItems :
                  /\ Has(run.rawMap, listItems[i].line)
                  /\ Get(run.rawMap, listItems[i].line).rawText = listItems[i].text
            /\ \A i \in DOMAIN run.rawMap :
                  Count(run.touchedTasks, run.rawMap[i].position) = 1
            /\ Len(run.touchedTasks) = Len(run.rawMap)
            /\ Len(written) = Len(run.rawMap)
            /\ \A j \in DOMAIN written :
                  document[written[j]].rawText =
                      Get(run.rawMap, run.touchedTasks[j]).rawText

\* a written document with a root, its child and its grandchild
C1_Witness ==
    /\ run.status = "written"
    /\ Len(run.rawMap) = MaxItems
    /\ \E k \in DOMAIN document :
          document[k].kind = "task" /\ document[k].ident = 2

(***************************************************************************)
(* C2                                                                      *)
(***************************************************************************)
\* C2: with the reorder feature enabled and the file safe, reorderTaskList
\* ends for every task map that was built either with the document written
\* or with the error of the touchedTasks check.
C2_ReorderReturnsOrConsistencyError ==
    (run.cmd = "reorderTaskList" /\ Built) =>
        run.status \in {"written", "reorderError"}

(***************************************************************************)
(* C9                                                                      *)
(***************************************************************************)
Unprioritized(task) ==
    (task.state = Some(OPEN) \/ task.state = None) /\ task.priority = None

PrioritizedOpen(task) == task.state = Some(OPEN) /\ task.priority # None

Done(task) == task.state # None /\ task.state # Some(OPEN)

Anomalous(task) == ~Unprioritized(task) /\ ~PrioritizedOpen(task) /\ ~Done(task)

\* the number of conditions of the table a task meets
TableHits(task) ==
    Cardinality({c \in {"u", "p", "d"} :
                    \/ c = "u" /\ Unprioritized(task)
                    \/ c = "p" /\ PrioritizedOpen(task)
                    \/ c = "d" /\ Done(task)})

\* C9: once reorderTaskList has classified the tasks, every top-level task
\* is in exactly one of the four arrays, the one the table gives: unprioritized
\* iff open or unspecified with no priority, prioritized iff open with a
\* priority, done iff an explicit state other than open, weird iff none of
\* these; no task meets two conditions of the table.
C9_BucketsFollowTable ==
    (run.cmd = "reorderTaskList" /\ Built) =>
        \A i \in DOMAIN run.rawMap :
            LET task == run.rawMap[i]
                p == task.position
            IN  IsRoot(task) =>
                  /\ Count(run.unprioritizedTasks, p)
                       = IF Unprioritized(task) THEN 1 ELSE 0
                  /\ Count(run.prioritizedUndoneTasks, p)
                       = IF PrioritizedOpen(task) THEN 1 ELSE 0
                  /\ Count(run.doneTasks, p) = IF Done(task) THEN 1 ELSE 0
                  /\ Count(run.weirdTasks, p) = IF Anomalous(task) THEN 1 ELSE 0
                  /\ TableHits(task) <= 1
                  /\ Count(run.unprioritizedTasks, p)
                       + Count(run.prioritizedUndoneTasks, p)
                       + Count(run.doneTasks, p) + Count(run.weirdTasks, p) = 1

\* a reorder with a weird, a prioritized and a done top-level task
C9_Witness ==
    /\ run.status = "written"
    /\ run.weirdTasks # <<>>
    /\ run.prioritizedUndoneTasks # <<>>
    /\ run.doneTasks # <<>>

(***************************************************************************)
(* C10                                                                     *)
(***************************************************************************)
\* C10, as claimed: in the document reorderTaskList wrote, every task that is
\* open and has an explicit priority stands in the prioritized section,
\* whatever its parent.
C10_OpenPrioritizedInPrioritizedSection ==
    run.status = "written" =>
        \A i \in DOMAIN run.rawMap :
            PrioritizedOpen(run.rawMap[i]) =>
                SectionOfTask(run.rawMap[i].position) = "# prioritized"

\* C10, amended: in the document reorderTaskList wrote, every top-level task
\* that is open and has an explicit priority stands in the prioritized
\* section, and every nested task stands in the section of its parent.
C10_TopLevelOpenPrioritizedInPrioritizedSection ==
    run.status = "written" =>
        \A i \in DOMAIN run.rawMap :
            LET task == run.rawMap[i]
            IN  /\ (IsRoot(task) /\ PrioritizedOpen(task)) =>
                      SectionOfTask(task.position) = "# prioritized"
                /\ ~IsRoot(task) =>
                      SectionOfTask(task.position) =
                          SectionOfTask(Val(task.parentTaskPosition))

\* a written document with an open prioritized top-level task, and an open
\* prioritized task nested in a done task
C10_Witness ==
    /\ run.status = "written"
    /\ \E i, j, k \in DOMAIN run.rawMap :
          /\ IsRoot(run.rawMap[i]) /\ PrioritizedOpen(run.rawMap[i])
          /\ IsRoot(run.rawMap[j]) /\ Done(run.rawMap[j])
          /\ run.rawMap[k].parentTaskPosition = Some(run.rawMap[j].position)
          /\ PrioritizedOpen(run.rawMap[k])

(***************************************************************************)
(* C3                                                                      *)
(***************************************************************************)
\* the resolved priority of a task of the map of the last command
Resolved(task) == ReferencePriority(run.rawMap, settings, task.position)

\* a task the roll may draw from: open, with a resolved priority of 0 or more
Eligible(task) == task.state = Some(OPEN) /\ Resolved(task) >= 0

\* C3: when the task map holds no eligible task, or every eligible task has
\* the resolved priority 0, rollTask ends with no selection: it throws no
\* error and selects no position.
C3_NoEligibleTaskIsNoSelection ==
    (/\ run.cmd = "rollTask"
     /\ Built
     /\ \A i \in DOMAIN run.rawMap :
           Eligible(run.rawMap[i]) => Resolved(run.rawMap[i]) = 0)
    => (run.status = "noSelection" /\ run.choice = None)

(***************************************************************************)
(* C4                                                                      *)
(***************************************************************************)
\* the elements of a set of numbers in ascending order
RECURSIVE Ascending(_)
Ascending(set) ==
    IF set = {} THEN <<>>
    ELSE LET least == CHOOSE x \in set : \A y \in set : x <= y
         IN  <<least>> \o Ascending(set \ {least})

\* the positions of the eligible tasks, in the order of the document
Pool ==
    Ascending({run.rawMap[i].position : i \in
                  {i \in DOMAIN run.rawMap : Eligible(run.rawMap[i])}})

Weight(position) == ReferencePriority(run.rawMap, settings, position)

\* the sum of the weights of the first k tasks of the pool
Cumulative(k) == SumSeq([i \in 1..k |-> Weight(Pool[i])])

\* C4: when rollTask has drawn an index, the pairs it walks are the
\* eligible tasks in the order of the document with their resolved priority,
\* the index is in [0, T) for the total T >= 1 of the weights, the task
\* selected is the one whose interval of cumulative weights holds the
\* index, the cursor is on it, and each task is selected by as many of the T
\* indexes as its weight.
C4_SelectionFollowsCumulativeWeights ==
    (run.cmd = "rollTask" /\ run.index # None) =>
        LET T == Cumulative(Len(Pool))
            index == Val(run.index)
        IN  /\ run.prio_pairs = [i \in DOMAIN Pool |-> <<Pool[i], Weight(Pool[i])>>]
            /\ T >= 1
            /\ index \in 0..(T - 1)
            /\ run.choice # None
            /\ \E k \in DOMAIN Pool :
                  /\ run.choice = Some(Pool[k])
                  /\ Cumulative(k - 1) <= index
                  /\ index < Cumulative(k)
            /\ cursor = Val(run.choice)
            /\ \A k \in DOMAIN Pool :
                  Cardinality({d \in 0..(T - 1) :
                                  Choose(run.prio_pairs, d) = Some(Pool[k])})
                      = Weight(Pool[k])

\* three eligible tasks of priorities 1, 2 and 3, and the draw 3, which
\* selects the third
C4_Witness ==
    /\ run.status = "selected"
    /\ Len(run.prio_pairs) = 3
    /\ [i \in 1..3 |-> run.prio_pairs[i][2]] = <<1, 2, 3>>
    /\ run.index = Some(3)
    /\ run.choice = Some(run.prio_pairs[3][1])

(***************************************************************************)
(* C5                                                                      *)
(***************************************************************************)
\* C5: the position rollTask selects is a task of the map that is open and
\* whose resolved priority is at least 1.
C5_SelectedIsOpenWithPositivePriority ==
    (run.cmd = "rollTask" /\ run.choice # None) =>
        /\ Has(run.rawMap, Val(run.choice))
        /\ Get(run.rawMap, Val(run.choice)).state = Some(OPEN)
        /\ Resolved(Get(run.rawMap, Val(run.choice))) >= 1

\* a selection from a map that also holds a task of unspecified state with
\* a positive priority and an open task of negative resolved priority
C5_Witness ==
    /\ run.status = "selected"
    /\ \E i, j \in DOMAIN run.rawMap :
          /\ run.rawMap[i].state = None
          /\ Resolved(run.rawMap[i]) >= 1
          /\ run.rawMap[j].state = Some(OPEN)
          /\ Resolved(run.rawMap[j]) < 0

(***************************************************************************)
(* C6                                                                      *)
(***************************************************************************)
\* C6: fetchPriority returns, for every position, the value of the reference
\* rule: defaultPriority for a position that is not in the map; with
\* inheritance the explicit priority of the nearest task of the chain task,
\* parent, grandparent, ... that has one; without inheritance the explicit
\* priority of the task itself; defaultPriority when there is none.  The
\* weights rollTask collected are these values.
C6_FetchPriorityIsReference ==
    Built =>
        /\ \A position \in 0..(MaxItems + 1) :
              fetchPriority(run.rawMap, settings, position)
                  = ReferencePriority(run.rawMap, settings, position)
        /\ \A i \in DOMAIN run.prio_pairs :
              run.prio_pairs[i][2]
                  = ReferencePriority(run.rawMap, settings, run.prio_pairs[i][1])

\* a roll with inheritance in which a task without priority inherits, from
\* its parent, a priority that is not the default
C6_Witness ==
    /\ run.cmd = "rollTask"
    /\ settings.priorityInheritance
    /\ \E i \in DOMAIN run.prio_pairs :
          LET task == Get(run.rawMap, run.prio_pairs[i][1])
          IN  /\ task.priority = None
              /\ task.parentTaskPosition # None
              /\ Get(run.rawMap, Val(task.parentTaskPosition)).priority
                    = Some(run.prio_pairs[i][2])
              /\ run.prio_pairs[i][2] # settings.defaultPriority

(***************************************************************************)
(* C7                                                                      *)
(***************************************************************************)
\* a list item declares a parent when its parent is the position of a line
\* (positions are 0 or more); a negative parent marks a root item
DeclaresParent(listItem) == listItem.parent >= 0

\* the i-th list item names a parent that no earlier list item is
ParentNotYetPresent(i) ==
    /\ DeclaresParent(listItems[i])
    /\ ~\E j \in 1..(i - 1) : listItems[j].line = listItems[i].parent

\* C7: when a list item declares a parent that is not yet in the map when
\* the item is processed, the command that built the map fails with the
\* error of the assertion: no map is returned, the document is not written
\* and the cursor is not moved.
C7_MissingParentFailsBuild ==
    (/\ run.cmd # "none"
     /\ run.status \notin {"disabled", "unsafe"}
     /\ \E i \in DOMAIN listItems : ParentNotYetPresent(i))
    => /\ run.status = "assert"
       /\ run.rawMap = <<>>
       /\ document = Source(listItems)
       /\ cursor = 0

(***************************************************************************)
(* C8                                                                      *)
(***************************************************************************)
IsAscending(s) == \A i, j \in DOMAIN s : i < j => s[i] < s[j]

\* C8: in a map that was built from list items whose parents all precede
\* them, the task of every list item that declares a parent P (P >= 0) has
\* parentTaskPosition P and is exactly once among the children of the task
\* P, the children of every task are in the order of the document, and a
\* task is top-level iff its list item declares no parent.
C8_DeclaredParentsAreLinked ==
    (Built /\ \A i \in DOMAIN listItems : ~ParentNotYetPresent(i)) =>
        \A i \in DOMAIN listItems :
            LET item == listItems[i]
                task == Get(run.rawMap, item.line)
            IN  /\ Has(run.rawMap, item.line)
                /\ IsRoot(task) <=> ~DeclaresParent(item)
                /\ DeclaresParent(item) =>
                      /\ task.parentTaskPosition = Some(item.parent)
                      /\ Has(run.rawMap, item.parent)
                      /\ Count(Get(run.rawMap, item.parent).children, item.line) = 1
                /\ IsAscending(task.children)

(***************************************************************************)
(* Notions of the order of the written document.                           *)
(***************************************************************************)
\* the place of a task among the tasks reorderTaskList wrote
EmitIndex(position) ==
    CHOOSE j \in DOMAIN run.touchedTasks : run.touchedTasks[j] = position

EmittedBefore(first, second) ==
    EmitIndex(first.position) < EmitIndex(second.position)

\* the top-level tasks of the map written in a section
RootsIn(title) ==
    {run.rawMap[i] : i \in {i \in DOMAIN run.rawMap :
        /\ IsRoot(run.rawMap[i])
        /\ SectionOfTask(run.rawMap[i].position) = title}}

\* a date field that holds a date
HasDate(field) == field # None /\ Val(field) # InvalidDate

Day(field) == Val(field)[1]

(***************************************************************************)
(* C11                                                                     *)
(***************************************************************************)
\* C11: in the prioritized section of the document reorderTaskList wrote,
\* of two top-level tasks of which one has a due date and the other has no
\* dueAt, the one with the due date is written first, whatever their
\* resolved priorities.
C11_DueBeforeUndue ==
    run.status = "written" =>
        \A a, b \in RootsIn("# prioritized") :
            (HasDate(a.dueAt) /\ b.dueAt = None) => EmittedBefore(a, b)

C13_DoneByDateThenPosition ==
    run.status = "written" =>
        \A a, b \in RootsIn("# done") :
            /\ (/\ HasDate(a.doneAt) /\ HasDate(b.doneAt)
                /\ Day(a.doneAt) > Day(b.doneAt)) => EmittedBefore(a, b)
            /\ (/\ a.position < b.position
                /\ \/ a.doneAt = None
                   \/ b.doneAt = None
                   \/ /\ HasDate(a.doneAt) /\ HasDate(b.doneAt)
                      /\ Day(a.doneAt) = Day(b.doneAt)) => EmittedBefore(a, b)

(***************************************************************************)
(* C19                                                                     *)
(***************************************************************************)
\* C19: in the prioritized section of the document reorderTaskList wrote,
\* of two top-level tasks that both have a due date, the one of the earlier
\* date is written first, whatever their resolved priorities.
C19_EarlierDueFirst ==
    run.status = "written" =>
        \A a, b \in RootsIn("# prioritized") :
            (/\ HasDate(a.dueAt) /\ HasDate(b.dueAt)
             /\ Day(a.dueAt) < Day(b.dueAt)) => EmittedBefore(a, b)

(***************************************************************************)
(* C14                                                                     *)
(***************************************************************************)
\* the list item on a line
ItemAt(line) == listItems[CHOOSE i \in DOMAIN listItems : listItems[i].line = line]

\* the lines of the list items that declare a line as their parent, in the
\* order of the source
DeclaredChildren(line) ==
    LET isChild(item) == item.parent = line
        children == SelectSeq(listItems, isChild)
    IN  [i \in DOMAIN children |-> children[i].line]

\* the blocks of a list of tasks: each task, then the blocks of its
\* declared children one level deeper, then the next task
RECURSIVE Blocks(_, _)
Blocks(list, ident) ==
    IF list = <<>> THEN <<>>
    ELSE <<[position |-> Head(list), ident |-> ident]>>
         \o Blocks(DeclaredChildren(Head(list)), ident + 1)
         \o Blocks(Tail(list), ident)

\* the tasks of the written document in order, each with its indentation
Emitted ==
    LET written == TaskLineIndexes(document)
    IN  [j \in DOMAIN written |->
            [position |-> run.touchedTasks[j], ident |-> document[written[j]].ident]]

\* the tasks that declare no parent, in the order they were written
DeclaredRootsEmitted ==
    LET isRoot(position) == ~DeclaresParent(ItemAt(position))
    IN  SelectSeq(run.touchedTasks, isRoot)

\* C14: the document reorderTaskList wrote is, for the order in which the
\* tasks that declare no parent were written, the sequence of their blocks:
\* each task is followed at once by the tasks that declare it as parent, in
\* the order of the source and one level deeper, each with its own block
\* before the next sibling; no task that declares a parent is written
\* anywhere else.
C14_ChildrenWrittenInParentBlock ==
    run.status = "written" => Emitted = Blocks(DeclaredRootsEmitted, 0)

(***************************************************************************)
(* C15                                                                     *)
(***************************************************************************)
\* the titles of the headers of a document, in order
Titles(doc) ==
    LET isHeader(line) == line.kind = "header"
        headers == SelectSeq(doc, isHeader)
    IN  [i \in DOMAIN headers |-> headers[i].title]

\* the header the table of the buckets gives a task
TitleOf(task) ==
    IF Unprioritized(task) THEN "# unprioritized"
    ELSE IF PrioritizedOpen(task) THEN "# prioritized"
    ELSE IF Done(task) THEN "# done"
    ELSE "# weird (bugs in task selection)"

\* the top-level tasks of the map
Roots == {run.rawMap[i] : i \in {i \in DOMAIN run.rawMap : IsRoot(run.rawMap[i])}}

Unrecorded ==
    \E i \in DOMAIN run.rawMap :
        ~\E j \in DOMAIN run.touchedTasks :
            run.touchedTasks[j] = run.rawMap[i].position

\* C16: when reorderTaskList has built its map and some position of the
\* map is not recorded as written, it ends with an error (the error of the
\* touchedTasks check once the output is assembled) and the document is
\* the one it read; a reorderTaskList that ends in any other way than with
\* the document written leaves the document as it read it, and one that
\* wrote the document recorded every position and wrote its output.
C16_WrittenOnlyAfterAccounting ==
    /\ (run.cmd = "reorderTaskList" /\ Built /\ Unrecorded) =>
          /\ run.status \in {"reorderError", "noInputs"}
          /\ run.output # <<>> => run.status = "reorderError"
          /\ document = Source(listItems)
    /\ (run.cmd = "reorderTaskList" /\ run.status # "written") =>
          document = Source(listItems)
    /\ run.status = "written" => (~Unrecorded /\ document = run.output)

\* a reorderTaskList that assembled its output without a task of the map,
\* failed the touchedTasks check and left the document as it was
C16_Witness ==
    /\ run.status = "reorderError"
    /\ Unrecorded
    /\ run.output # <<>>
    /\ document = Source(listItems)

(***************************************************************************)
(* C17                                                                     *)
(***************************************************************************)
\* C17: a reorderTaskList run while reorderFeatureEnabled is false ends
\* with no error and with nothing done: no task map was built, no output
\* was assembled, the document is the one that was read and the cursor has
\* not moved, whether the file is safe or not.
C17_DisabledReorderChangesNothing ==
    (run.cmd = "reorderTaskList" /\ ~settings.reorderFeatureEnabled) =>
        /\ run.status = "disabled"
        /\ run.rawMap = <<>>
        /\ run.output = <<>>
        /\ run.touchedTasks = <<>>
        /\ document = Source(listItems)
        /\ cursor = 0

\* reorderTaskList was run with the feature disabled on a safe file that
\* holds a prioritized task
C17_Witness ==
    /\ run.cmd = "reorderTaskList"
    /\ ~settings.reorderFeatureEnabled
    /\ isFileSafe
    /\ \E i \in DOMAIN listItems :
          listItems[i].task = Some(OPEN) /\ PRIO_REGEX(listItems[i].text) # None

(***************************************************************************)
(* C18                                                                     *)
(***************************************************************************)
\* the list items with the checkbox and the priority tag of the i-th changed
WithStateAndPriority(items, i, task, prio) ==
    LET notPrio(tag) == tag.kind # "prio"
        tags == OptTag("prio", prio) \o SelectSeq(items[i].text.tags, notPrio)
    IN  [items EXCEPT ![i] = [@ EXCEPT !.task = task,
                                       !.text = [@ EXCEPT !.tags = tags]]]

\* the tasks that declare no parent, in the order of each bucket of a
\* reorderTaskList
RootPlaces(r) ==
    LET isRoot(position) == ~DeclaresParent(ItemAt(position))
    IN  [weird |-> SelectSeq(r.weirdTasks, isRoot),
         unprioritized |-> SelectSeq(r.unprioritizedTasks, isRoot),
         prioritized |-> SelectSeq(r.finalPrioritizedTasks, isRoot),
         done |-> SelectSeq(r.doneTasks, isRoot)]

\* the task written at indentation 0 at or above the j-th written task
RECURSIVE RootAbove(_)
RootAbove(j) ==
    IF Emitted[j].ident = 0 THEN Emitted[j].position ELSE RootAbove(j - 1)

\* C18: in the document reorderTaskList wrote, every task that declares no
\* parent stands under the header its own state and priority give it
\* (unprioritized with no priority, prioritized when open with a priority),
\* every child of such a task is written one level deeper in the block of
\* that task, whatever the child's own state and priority, and the same
\* list with any other state and priority of a child is written with the
\* same tasks that declare no parent in the same order in every bucket.
C18_RootPlacedByItsOwnFields ==
    run.status = "written" =>
        /\ \A i \in DOMAIN listItems :
              LET item == listItems[i]
              IN  IF ~DeclaresParent(item)
                  THEN SectionOfTask(item.line)
                         = TitleOf(Get(run.rawMap, item.line))
                  ELSE ~DeclaresParent(ItemAt(item.parent)) =>
                         /\ Emitted[EmitIndex(item.line)].ident = 1
                         /\ RootAbove(EmitIndex(item.line)) = item.parent
        /\ \A i \in DOMAIN listItems :
              DeclaresParent(listItems[i]) =>
                  \A task \in CheckboxStates, prio \in PrioTags :
                      LET other == reorderTaskList(settings, TRUE,
                                       WithStateAndPriority(listItems, i, task, prio))
                      IN  /\ other.status = "written"
                          /\ RootPlaces(other) = RootPlaces(run)

(***************************************************************************)
(* C20                                                                     *)
(***************************************************************************)
\* C20: in the unprioritized section of the document reorderTaskList
\* wrote, the top-level tasks stand in ascending order of position, the
\* order of the source.
C20_UnprioritizedInSourceOrder ==
    run.status = "written" =>
        \A a, b \in RootsIn("# unprioritized") :
            a.position < b.position => EmittedBefore(a, b)

\* a written document with two top-level tasks in the unprioritized
\* section, one open and one with no checkbox, below a prioritized task
C20_Witness ==
    /\ run.status = "written"
    /\ \E a, b \in RootsIn("# unprioritized") :
          /\ a.position < b.position
          /\ a.state # b.state
          /\ \E c \in RootsIn("# prioritized") : c.position < a.position

(***************************************************************************)
(* C21                                                                     *)
(***************************************************************************)
\* reorderTaskList got past the median of the priorities
Split == run.cmd = "reorderTaskList" /\ run.status \in {"written", "reorderError"}

\* the two parts of the median split of the last reorder, each sorted
HighPart ==
    sortedHighPriorityTasks(run.rawMap,
        priorities(run.rawMap, settings, run.prioritizedUndoneTasks))

LowPart ==
    sortedLowPriorityTasks(run.rawMap,
        priorities(run.rawMap, settings, run.prioritizedUndoneTasks))

\* the positions of a sequence of [position, priority] pairs
PositionsOf(pairs) == [i \in DOMAIN pairs |-> pairs[i][1]]

\* every element of a sequence of pairs is not after its right neighbour
\* under prioritizedTaskSort
NeighboursInOrder(pairs) ==
    \A i \in DOMAIN pairs :
        i < Len(pairs) =>
            prioritizedTaskSort(run.rawMap, pairs[i], pairs[i + 1]) <= 0

C26_DoneComparatorIsStrictOrder ==
    (run.cmd = "reorderTaskList" /\ Built) =>
        \A a, b, c \in Range(run.doneTasks) :
            /\ a # b => /\ doneTaskSort(run.rawMap, a, b) # 0
                        /\ doneTaskSort(run.rawMap, a, b) < 0
                               <=> doneTaskSort(run.rawMap, b, a) > 0
            /\ (/\ doneTaskSort(run.rawMap, a, b) < 0
                /\ doneTaskSort(run.rawMap, b, c) < 0)
                   => doneTaskSort(run.rawMap, a, c) < 0

(***************************************************************************)
(* C27                                                                     *)
(***************************************************************************)
\* C27: the prioritized section reorderTaskList computes with the median
\* split is the sequence one sort of the whole prioritized open bucket with
\* prioritizedTaskSort gives, whatever priorities and due dates the tasks
\* carry.
C27_SplitEqualsOneSort ==
    Split =>
        run.finalPrioritizedTasks =
            PositionsOf(Sort("prioritized", run.rawMap,
                             priorities(run.rawMap, settings,
                                        run.prioritizedUndoneTasks)))

(***************************************************************************)
(* C28                                                                     *)
(***************************************************************************)
\* the index of the line a task line of a document is nested in: the
\* nearest task line above it that has one tab less
RECURSIVE ParentIndex(_, _, _)
ParentIndex(doc, k, ident) ==
    IF k = 0 THEN 0
    ELSE IF doc[k].kind = "task" /\ doc[k].ident = ident - 1 THEN k
    ELSE ParentIndex(doc, k - 1, ident)

\* the list items of a document reorderTaskList wrote: every task line is
\* the item at its line (the first line of a document is line 0), with the
\* text and the checkbox of the item it was written from
Reread(doc, items) ==
    LET indexes == TaskLineIndexes(doc)
        from(k) == CHOOSE i \in DOMAIN items : items[i].text = doc[k].rawText
        parent(k) == IF doc[k].ident = 0 THEN -1
                     ELSE ParentIndex(doc, k - 1, doc[k].ident) - 1
    IN  [j \in DOMAIN indexes |->
            [line |-> indexes[j] - 1,
             parent |-> parent(indexes[j]),
             task |-> items[from(indexes[j])].task,
             text |-> doc[indexes[j]].rawText]]

\* C28: when reorderTaskList has written the document and is run again on
\* the list items of the document it wrote, it writes the same document:
\* the same tasks under the same headers, in the same order and with the
\* same nesting.
C28_ReorderIsIdempotent ==
    run.status = "written" =>
        LET again == reorderEnabled(settings, TRUE, Reread(run.output, listItems))
        IN  /\ again.status = "written"
            /\ again.output = run.output

\* a written document whose tasks are not in the order of the source, with
\* a task with a due date in the prioritized section and two tasks with
\* done dates in the done section
C28_Witness ==
    /\ run.status = "written"
    /\ ~IsAscending(run.touchedTasks)
    /\ \E a \in RootsIn("# prioritized") : HasDate(a.dueAt)
    /\ \E a, b \in RootsIn("# done") :
          HasDate(a.doneAt) /\ HasDate(b.doneAt) /\ a.position # b.position

(***************************************************************************)
(* C22                                                                     *)
(***************************************************************************)
\* C22: in a built map every task that has a parentTaskPosition P has a
\* task P in the map and P is less than the position of the task, so no
\* task is its own ancestor.
C22_ParentsHaveLowerPositions ==
    Built =>
        \A i \in DOMAIN run.rawMap :
            LET task == run.rawMap[i]
            IN  task.parentTaskPosition # None =>
                    /\ Has(run.rawMap, Val(task.parentTaskPosition))
                    /\ Val(task.parentTaskPosition) < task.position

(***************************************************************************)
(* C23                                                                     *)
(***************************************************************************)
\* C23: on a built map fetchPriority returns for every position: no call
\* comes back to a position it was called with, and no command ends with
\* the stack overflow of a recursion that does not return.
C23_FetchPriorityReturns ==
    Built =>
        /\ run.status # "stackOverflow"
        /\ \A position \in 0..(MaxItems + 1) :
               LET calls == fetchPriorityCalls(run.rawMap, settings, position,
                                               Len(run.rawMap) + 2)
               IN  \A i, j \in DOMAIN calls : i < j => calls[i] # calls[j]

(***************************************************************************)
(* C30                                                                     *)
(***************************************************************************)
\* C30: for the list items of a well-formed list, under the settings in
\* force, getPriority of main.ts returns for the line of every list item
\* the value fetchPriority returns on the map built from the items, and the
\* weighted pairs the roll of main.ts draws from are those rollTask of
\* color.ts collected.
C30_GetPriorityIsFetchPriority ==
    (run.cmd = "rollTask" /\ Built) =>
        /\ \A i \in DOMAIN listItems :
               getPriority(listItems[i].line, listItems, settings)
                   = Some(fetchPriority(run.rawMap, settings, listItems[i].line))
        /\ legacy_prio_pairs(listItems, settings) = run.prio_pairs

\* a roll without inheritance, under a default priority that is not 0, over
\* a list in which an open task without priority stands under a parent
\* whose priority is not the default
C30_Witness ==
    /\ run.cmd = "rollTask"
    /\ Built
    /\ ~settings.priorityInheritance
    /\ settings.defaultPriority # 0
    /\ \E i, j \in DOMAIN listItems :
          /\ listItems[i].parent = listItems[j].line
          /\ listItems[i].task = Some(OPEN)
          /\ PRIO_REGEX(listItems[i].text) = None
          /\ PRIO_REGEX(listItems[j].text) \notin {None, Some(settings.defaultPriority)}

(***************************************************************************)
(* C25                                                                     *)
(***************************************************************************)
\* a step in which a command ran and left other locals than the command
\* before it
CommandRan == run' # run /\ run'.cmd # "none"

\* C25: isFileSafe is false when the plugin starts; an editor-change leaves
\* it false and only a file-open or a metadata-changed makes it true; as
\* long as it is false no step changes the document or the cursor, a roll
\* or a reorder with the feature enabled ends with the error of makeTaskMap
\* and no task map; when it is true no command ends with that error.
C25_UnsafeUntilFileEvent ==
    /\ ~isFileSafe
    /\ [][/\ EditorChange => ~isFileSafe'
          /\ (~isFileSafe /\ isFileSafe') => (FileOpen \/ MetadataChanged)
          /\ ~isFileSafe =>
                /\ document' = document
                /\ cursor' = cursor
                /\ (CommandRan /\ run'.cmd = "rollTask")
                       => (run'.status = "unsafe" /\ run'.rawMap = <<>>)
                /\ (/\ CommandRan
                    /\ run'.cmd = "reorderTaskList"
                    /\ settings.reorderFeatureEnabled)
                       => (run'.status = "unsafe" /\ run'.rawMap = <<>>)
          /\ (isFileSafe /\ CommandRan) => run'.status # "unsafe"]_vars

\* a reorder with the feature enabled failed on the unsafe file, and a
\* file-open or metadata-changed event has made the file safe since
C25_Witness ==
    /\ run.cmd = "reorderTaskList"
    /\ run.status = "unsafe"
    /\ settings.reorderFeatureEnabled
    /\ isFileSafe

(***************************************************************************)
(* C24                                                                     *)
(***************************************************************************)
\* C24: whenever isFileSafe is true, the metadata cache has reported every
\* edit of the file the editor shows.
C24_SafeFileHasNoPendingEdit ==
    isFileSafe => files.pending[files.open] = 0

(***************************************************************************)
(* C29                                                                     *)
(***************************************************************************)
\* how many tags of a kind a line carries
Suffixes(line, kind) ==
    Cardinality({k \in DOMAIN line.rawText.tags :
                    line.rawText.tags[k].kind = kind})

\* C29: a line of the document that was an open task with no date suffix
\* when the cache was read carries, after any toggles, at most one Done
\* suffix and at most one Left suffix, a Done suffix only when its checkbox
\* is "x" and a Left suffix only when its checkbox is "N".
C29_SuffixFollowsCheckbox ==
    \A i \in DOMAIN document :
        (/\ document[i].kind = "source"
         /\ listItems[i].task = Some(OPEN)
         /\ MAID_TASK_CLOSE_METADATA(listItems[i].text) = None
         /\ MAID_TASK_LEFT_METADATA(listItems[i].text) = None) =>
            /\ Suffixes(document[i], "done") <= 1
            /\ Suffixes(document[i], "left") <= 1
            /\ Suffixes(document[i], "done") = 1
                   => document[i].checkbox = Some("x")
            /\ Suffixes(document[i], "left") = 1
                   => document[i].checkbox = Some("N")

====
